---- MODULE Spec2Model ----
(***************************************************************************)
(* wrapperauth (src/main.rs): a command-line front end that parses a       *)
(* command (auth | clear, with --client, --tenant and one or more          *)
(* --scopes), translates it into the argument vector of the external       *)
(* `azureauth` helper, spawns the helper and reports whether the spawn     *)
(* succeeded.                                                              *)
(*                                                                         *)
(* Two specifications:                                                     *)
(*   Spec      one run of main(): parse, translate, spawn, report, exit.   *)
(*   SpecT     translate applied once to a Command drawn from a bounded    *)
(*             set (the way the unit tests call it, empty scopes included).*)
(***************************************************************************)
EXTENDS Naturals, Sequences, FiniteSets

(* ------------------------------ bounds -------------------------------- *)

\* Longest scope list of a command.
MaxScopes == 3

(* --------------------------- value domains ---------------------------- *)

\* Strings the user can give as values. Each domain holds a string that
\* looks like one of the helper's flags: String fields carry any text.
ClientStr == {"foo", "--clear"}
TenantStr == {"bar", "--clear"}
ScopeStr == {"baz", "quux", "--clear"}

\* Operating-system errors a failed spawn can carry.
OsErrors == {"No such file or directory (os error 2)",
             "Permission denied (os error 13)"}

SeqsUpTo(S, n) == UNION {[1..k -> S] : k \in 0..n}

(* ---------------------------- command model --------------------------- *)

\* struct Target { client, tenant, scopes }: the type itself admits an
\* empty scopes vector.
Target == [client : ClientStr, tenant : TenantStr,
           scopes : SeqsUpTo(ScopeStr, MaxScopes)]

\* enum Args { Auth(Target), Clear(Target) }
Args == [kind : {"Auth", "Clear"}, target : Target]

\* The command line: the subcommand given (or none / an unknown one), the
\* value of --client and of --tenant when given (a 0- or 1-element
\* sequence), and the values of the --scopes occurrences, in order.
Inputs == [sub : {"auth", "clear", "none"},
           client : SeqsUpTo(ClientStr, 1),
           tenant : SeqsUpTo(TenantStr, 1),
           scopes : SeqsUpTo(ScopeStr, MaxScopes)]

VARIABLES
    pc,       \* position of main(): "parse", "translate", "spawn", "report", "exited"
    input,    \* the command line of this run
    cmd,      \* Option<Args>: <<>> before parsing, <<a>> after
    argv,     \* Option<Vec<String>>: <<>> before translate returns, <<v>> after
    spawns,   \* the spawn attempts made, in order
    result,   \* Option<Result>: <<>>, Ok or Err(e), as <<[ok, err]>>
    stdout,   \* lines printed to standard output
    stderr,   \* lines printed to standard error
    exit,     \* Option<exit code>: <<>> while running
    tcmd,     \* SpecT: the Command translate is applied to
    tcalled,  \* SpecT: translate has returned
    tout      \* SpecT: what translate returned

vars == <<pc, input, cmd, argv, spawns, result, stdout, stderr, exit,
          tcmd, tcalled, tout>>
mainVars == <<pc, input, cmd, argv, spawns, result, stdout, stderr, exit>>
tVars == <<tcmd, tcalled, tout>>

(* ------------------------------ translator ---------------------------- *)

\* Mutant: the scopes are pushed last to first.
RECURSIVE PushScopes_reversed(_, _)
PushScopes_reversed(args, scopes) ==
    IF scopes = <<>> THEN args
    ELSE PushScopes_reversed(
             Append(Append(args, "--scope"), scopes[Len(scopes)]),
             SubSeq(scopes, 1, Len(scopes) - 1))

\* for scope in target.scopes { args.push("--scope"); args.push(scope); }
RECURSIVE PushScopes(_, _)
PushScopes(args, scopes) ==
    IF scopes = <<>> THEN args
    ELSE PushScopes(Append(Append(args, "--scope"), Head(scopes)),
                    Tail(scopes))

\* Mutant: client and tenant values swapped.
From_swapped(target) ==
    PushScopes(<<"--client", target.tenant, "--tenant", target.client,
                 "--resource", " ">>, target.scopes)

\* Mutant: the resource pair is left out.
From_noResource(target) ==
    PushScopes(<<"--client", target.client, "--tenant", target.tenant>>,
               target.scopes)

\* Mutant: an empty scope list aborts the translation, nothing is built.
From_rejectEmpty(target) ==
    IF target.scopes = <<>> THEN <<>>
    ELSE PushScopes(<<"--client", target.client, "--tenant", target.tenant,
                      "--resource", " ">>, target.scopes)

\* impl From<Target> for Vec<String>
From(target) ==
    PushScopes(<<"--client", target.client, "--tenant", target.tenant,
                 "--resource", " ">>, target.scopes)

\* Mutant: the Auth arm pushes "--clear" too.
translate_alwaysClear(args) == Append(From(args.target), "--clear")

\* Mutant: the Clear arm puts "--clear" first.
translate_clearFirst(args) ==
    IF args.kind = "Auth" THEN From(args.target)
    ELSE <<"--clear">> \o From(args.target)

\* fn translate(args: Args) -> Vec<String>
translate(args) ==
    IF args.kind = "Auth" THEN From(args.target)
    ELSE Append(From(args.target), "--clear")

(* -------------------------------- parser ------------------------------ *)

\* Mutant: scopes declared without `required = true`.
ParseAccepts_scopesOptional(in) ==
    /\ in.sub \in {"auth", "clear"}
    /\ in.client # <<>>
    /\ in.tenant # <<>>

\* What Args::parse() accepts: a subcommand of the enum, the two String
\* fields (required, as they are not Option) and scopes, `required = true`.
ParseAccepts(in) ==
    /\ in.sub \in {"auth", "clear"}
    /\ in.client # <<>>
    /\ in.tenant # <<>>
    /\ in.scopes # <<>>

\* The Args value the derived parser builds from an accepted command line.
Parsed(in) ==
    [kind |-> IF in.sub = "auth" THEN "Auth" ELSE "Clear",
     target |-> [client |-> in.client[1], tenant |-> in.tenant[1],
                 scopes |-> in.scopes]]

(* --------------------------------- main ------------------------------- *)

\* let args = Args::parse();  -- the command line is accepted
ParseOk ==
    /\ pc = "parse"
    /\ ParseAccepts(input)
    /\ cmd' = <<Parsed(input)>>
    /\ pc' = "translate"
    /\ UNCHANGED <<input, argv, spawns, result, stdout, stderr, exit>>
    /\ UNCHANGED tVars

\* let args = Args::parse();  -- the command line is rejected: parse()
\* prints the usage error and exits the process with status 2.
ParseErr ==
    /\ pc = "parse"
    /\ ~ParseAccepts(input)
    /\ stderr' = Append(stderr, <<"error: usage">>)
    /\ exit' = <<2>>
    /\ pc' = "exited"
    /\ UNCHANGED <<input, cmd, argv, spawns, result, stdout>>
    /\ UNCHANGED tVars

\* let args = translate(args);
Translate ==
    /\ pc = "translate"
    /\ argv' = <<translate(cmd[1])>>
    /\ pc' = "spawn"
    /\ UNCHANGED <<input, cmd, spawns, result, stdout, stderr, exit>>
    /\ UNCHANGED tVars

\* Mutant: the helper is started without the arguments.
SpawnAttempt_noArgs == [program |-> "azureauth", args |-> <<>>]

\* Command::new("azureauth").args(args)
SpawnAttempt == [program |-> "azureauth", args |-> argv[1]]

\* .spawn() returns Ok(child)
SpawnOk ==
    /\ pc = "spawn"
    /\ spawns' = Append(spawns, SpawnAttempt)
    /\ result' = <<[ok |-> TRUE, err |-> ""]>>
    /\ pc' = "report"
    /\ UNCHANGED <<input, cmd, argv, stdout, stderr, exit>>
    /\ UNCHANGED tVars

\* .spawn() returns Err(err): the operating system refused
SpawnErr ==
    /\ pc = "spawn"
    /\ \E e \in OsErrors :
          result' = <<[ok |-> FALSE, err |-> e]>>
    /\ spawns' = Append(spawns, SpawnAttempt)
    /\ pc' = "report"
    /\ UNCHANGED <<input, cmd, argv, stdout, stderr, exit>>
    /\ UNCHANGED tVars

\* Ok(_) => println!("Spawned AzureAuth process."), then main returns ().
ReportOk ==
    /\ pc = "report"
    /\ result[1].ok
    /\ stdout' = Append(stdout, <<"Spawned AzureAuth process.">>)
    /\ exit' = <<0>>
    /\ pc' = "exited"
    /\ UNCHANGED <<input, cmd, argv, spawns, result, stderr>>
    /\ UNCHANGED tVars

\* Err(err) => eprintln!("Failed to spawn AzureAuth process: {err}"), then
\* main returns (): the process ends with status 0.
ReportErr ==
    /\ pc = "report"
    /\ ~result[1].ok
    /\ stderr' = Append(stderr,
                   <<"Failed to spawn AzureAuth process: ", result[1].err>>)
    /\ exit' = <<0>>
    /\ pc' = "exited"
    /\ UNCHANGED <<input, cmd, argv, spawns, result, stdout>>
    /\ UNCHANGED tVars

MainStart ==
    /\ pc = "parse"
    /\ cmd = <<>>
    /\ argv = <<>>
    /\ spawns = <<>>
    /\ result = <<>>
    /\ stdout = <<>>
    /\ stderr = <<>>
    /\ exit = <<>>

IdleInput == [sub |-> "none", client |-> <<>>, tenant |-> <<>>, scopes |-> <<>>]
IdleArgs == [kind |-> "Auth",
             target |-> [client |-> "foo", tenant |-> "bar", scopes |-> <<>>]]

Init ==
    /\ MainStart
    /\ input \in Inputs
    /\ tcmd = IdleArgs
    /\ tcalled = FALSE
    /\ tout = <<>>

Next ==
    \/ ParseOk
    \/ ParseErr
    \/ Translate
    \/ SpawnOk
    \/ SpawnErr
    \/ ReportOk
    \/ ReportErr

Spec == Init /\ [][Next]_vars

(* ----------------------- translate, applied once ---------------------- *)

InitT ==
    /\ MainStart
    /\ input = IdleInput
    /\ tcmd \in Args
    /\ tcalled = FALSE
    /\ tout = <<>>

\* let subject = translate(args);
TranslateCall ==
    /\ ~tcalled
    /\ tout' = translate(tcmd)
    /\ tcalled' = TRUE
    /\ UNCHANGED <<tcmd, mainVars>>

NextT == TranslateCall

SpecT == InitT /\ [][NextT]_vars

(* ------------------------------- claims ------------------------------- *)

Prefix(target) ==
    <<"--client", target.client, "--tenant", target.tenant, "--resource", " ">>

NScopes == Len(tcmd.target.scopes)

\* C1: for every command with at least one scope, the first six elements
\* of translate's output are "--client", the command's client, "--tenant",
\* the command's tenant, "--resource" and the single-space string.
C1_FixedPrefix ==
    (tcalled /\ NScopes >= 1) =>
        /\ Len(tout) >= 6
        /\ SubSeq(tout, 1, 6) = Prefix(tcmd.target)

C1_Witness ==
    /\ tcalled
    /\ tcmd.kind = "Clear"
    /\ tcmd.target.client = "--clear"
    /\ tcmd.target.tenant = "bar"
    /\ NScopes = 2
    /\ tout[2] = "--clear"
    /\ tout[6] = " "

\* C2: for every command with scopes s1..sN, N >= 1, output positions
\* 7 .. 6+2N hold "--scope", s1, ..., "--scope", sN: one pair per scope,
\* right after the six-element prefix, in input order, duplicates kept.
C2_ScopePairs ==
    (tcalled /\ NScopes >= 1) =>
        /\ Len(tout) >= 6 + 2 * NScopes
        /\ \A i \in 1..NScopes :
              /\ tout[6 + 2 * i - 1] = "--scope"
              /\ tout[6 + 2 * i] = tcmd.target.scopes[i]

C2_Witness ==
    /\ tcalled
    /\ tcmd.target.scopes = <<"quux", "baz">>
    /\ SubSeq(tout, 7, 10) = <<"--scope", "quux", "--scope", "baz">>

C2_WitnessDuplicate ==
    /\ tcalled
    /\ tcmd.target.scopes = <<"baz", "baz">>
    /\ SubSeq(tout, 7, 10) = <<"--scope", "baz", "--scope", "baz">>

\* C3, as stated: the output of a Clear command ends with "--clear", and
\* no element of the output of an Acquire command equals "--clear",
\* whatever its client, tenant and scope strings are.
C3_AsStated ==
    (argv # <<>>) =>
        /\ cmd[1].kind = "Clear" => argv[1][Len(argv[1])] = "--clear"
        /\ cmd[1].kind = "Auth" =>
              \A i \in 1..Len(argv[1]) : argv[1][i] # "--clear"

\* C3, amended: the output of a Clear command ends with "--clear"; an
\* element of the output of an Acquire command equals "--clear" only where
\* it is the command's own client (position 2), tenant (position 4) or
\* i-th scope (position 6+2i), so an Acquire command none of whose values
\* is "--clear" has no "--clear" element.
C3_ClearOnlyFromValues ==
    (argv # <<>>) =>
        LET out == argv[1]
            t == cmd[1].target
        IN  /\ cmd[1].kind = "Clear" => out[Len(out)] = "--clear"
            /\ cmd[1].kind = "Auth" =>
                  \A i \in 1..Len(out) :
                      out[i] = "--clear" =>
                          \/ i = 2 /\ t.client = "--clear"
                          \/ i = 4 /\ t.tenant = "--clear"
                          \/ /\ i > 6
                             /\ i % 2 = 0
                             /\ t.scopes[(i - 6) \div 2] = "--clear"
            /\ (/\ cmd[1].kind = "Auth"
                /\ t.client # "--clear"
                /\ t.tenant # "--clear"
                /\ \A k \in 1..Len(t.scopes) : t.scopes[k] # "--clear") =>
                  \A i \in 1..Len(out) : out[i] # "--clear"

C3_Witness ==
    /\ argv # <<>>
    /\ cmd[1].kind = "Auth"
    /\ cmd[1].target.client = "foo"
    /\ cmd[1].target.scopes = <<"baz", "--clear">>
    /\ argv[1][10] = "--clear"

C3_WitnessClear ==
    /\ argv # <<>>
    /\ cmd[1].kind = "Clear"
    /\ cmd[1].target.scopes = <<"baz">>
    /\ Len(argv[1]) = 9
    /\ argv[1][9] = "--clear"

\* C4: when the spawn of the helper fails, the program reports a failure
\* message carrying the operating-system error and ends with a non-zero
\* process outcome.
C4_SpawnFailureNonZero ==
    (pc = "exited" /\ result # <<>> /\ ~result[1].ok) =>
        /\ stderr = <<<<"Failed to spawn AzureAuth process: ", result[1].err>>>>
        /\ exit # <<0>>

\* C5: the length of translate's output is 6 + 2N for an Acquire command
\* and 7 + 2N for a Clear command, N >= 1 the number of scopes.
C5_Length ==
    (tcalled /\ NScopes >= 1) =>
        /\ tcmd.kind = "Auth" => Len(tout) = 6 + 2 * NScopes
        /\ tcmd.kind = "Clear" => Len(tout) = 7 + 2 * NScopes

C5_Witness ==
    /\ tcalled
    /\ tcmd.kind = "Clear"
    /\ NScopes = 2
    /\ Len(tout) = 11

C5_WitnessAuth ==
    /\ tcalled
    /\ tcmd.kind = "Auth"
    /\ NScopes = 1
    /\ Len(tout) = 8

C7_SpawnOnceVerbatim ==
    /\ Len(spawns) <= 1
    /\ spawns # <<>> =>
          /\ cmd # <<>>
          /\ argv # <<>>
          /\ spawns[1].program = "azureauth"
          /\ spawns[1].args = argv[1]
          /\ spawns[1].args = translate(cmd[1])

C7_Witness ==
    /\ pc = "exited"
    /\ Len(spawns) = 1
    /\ cmd[1].kind = "Clear"
    /\ spawns[1].args = <<"--client", "foo", "--tenant", "bar", "--resource",
                          " ", "--scope", "baz", "--scope", "quux", "--clear">>

\* C9: for every client, tenant and scope list, the output for the Clear
\* command is the output for the Acquire command of the same client,
\* tenant and scopes followed by the one element "--clear".
C9_ClearIsAuthPlusClear ==
    (tcalled /\ tcmd.kind = "Clear") =>
        tout = translate([kind |-> "Auth", target |-> tcmd.target])
                   \o <<"--clear">>

C9_Witness ==
    /\ tcalled
    /\ tcmd.kind = "Clear"
    /\ tcmd.target.scopes = <<"baz", "quux">>
    /\ Len(tout) = 11
    /\ tout[11] = "--clear"
    /\ tout[10] = "quux"

\* C10: applied to a command with an empty scope list translate returns
\* normally with no "--scope" element: the six-element prefix for Acquire,
\* the prefix followed by "--clear" for Clear.
C10_EmptyScopes ==
    (~tcalled) \/ (NScopes # 0) \/
        /\ tcmd.kind = "Auth" => tout = Prefix(tcmd.target)
        /\ tcmd.kind = "Clear" => tout = Prefix(tcmd.target) \o <<"--clear">>
        /\ \A i \in 1..Len(tout) : tout[i] # "--scope"

C10_Witness ==
    /\ tcalled
    /\ NScopes = 0
    /\ tcmd.kind = "Clear"
    /\ tout = <<"--client", "foo", "--tenant", "bar", "--resource", " ",
                "--clear">>

====
